---- MODULE Spec2Model ----
(***************************************************************************)
(* The caching and freshness layer of the Material 3 MCP server:           *)
(*   - PersistentCache (utils/persistent-cache.ts): three flat-cache       *)
(*     backed partitions with per-entry TTL and hit/miss/write counters;   *)
(*   - CacheVersionManager (utils/cache-versioning.ts): the version record *)
(*     under cache:version, the hourly upstream check and invalidation.    *)
(* Time is in milliseconds, as Date.now() reports it; TTLs are seconds.    *)
(***************************************************************************)
EXTENDS Integers, Sequences, FiniteSets, TLC

\* ---------------------------------------------------------------- bounds
\* whole hours the clock may advance
MaxHours == 1
\* one-second ticks explored past each hour mark
MaxSec == 2
\* milliseconds that may pass between two Date.now() reads of one handler
MaxSkew == 1
\* cap of the hits / misses / writes counters
MaxCount == 2

\* ------------------------------------------------------- program constants
VERSION_CHECK_INTERVAL == 3600000
Hour == VERSION_CHECK_INTERVAL
Second == 1000
DEFAULT_TTL == 3600
CACHE_VERSION_KEY == "cache:version"
CURRENT_CACHE_VERSION == "1.0.0"
\* the version string an earlier build stamped into the on-disk record
OLD_CACHE_VERSION == "0.9.0"

Partitions == {"components", "icons", "docs"}
ComponentKey == "web:button:default"
Keys == {CACHE_VERSION_KEY, ComponentKey}
Values == {[v |-> "v1"], [v |-> "v2"]}
\* TTL arguments of set: 0 stands for both 0 and an omitted argument
\* (ttl || 3600 treats them alike)
TTLs == {-1, 0, 1}

NoEntry == [none |-> TRUE]
Undefined == [undef |-> TRUE]
NoSha == <<>>
Shas == {"a", "b"}

VARIABLES
  now,           \* the wall clock, ms
  cacheEnabled,  \* userConfig.config.cacheEnabled
  cache,         \* cache[part][key]: the flat-cache contents of a partition
  stats,         \* stats[part]: hits, misses, writes
  heap,          \* heap[id]: the CacheVersion objects (shared by reference)
  pc,            \* pc[p]: where call p of checkCacheVersion is suspended
  local,         \* local[p]: storedVersion, now and flutterLatestSha of call p
  upstream,      \* the latest commit of the two upstream repositories
  wrapping,      \* wrapping[w]: the wrap call of caller w awaiting its fetchFn
  componentCache, \* the in-memory CacheManager instance of the providers
  request,       \* the githubClient.get call in progress: its attempt
  last           \* the operation that completed last, with its result

vars ==
  <<now, cacheEnabled, cache, stats, heap, pc, local, upstream, wrapping,
    componentCache, request, last>>

\* the callers of checkCacheVersion: main() at startup and the check_updates
\* action of manage_cache_health
Procs == {"startup", "check_updates"}
\* the CacheVersion objects alive at once: one per caller and the stored one
ObjIds == {"o1", "o2", "o3"}
NoObj == "null"
Free == [free |-> TRUE]

\* ------------------------------------------------------------------ clock
SecOfHour(t) == (t % Hour) \div Second
\* two consecutive reads of Date.now() in one handler are d ms apart; the
\* milliseconds the clock drifts off a full second are capped by MaxSkew
Skews(t) == {d \in 0..MaxSkew : (t % Second) + d <= MaxSkew}

\* ---------------------------------------------------------- PersistentCache
\* a store is the pair of what the three PersistentCache objects hold
Store(c, s) == [cache |-> c, stats |-> s]

IsEntry(e) == e /= NoEntry

\* variant: an entry counted as expired already at age = ttl
Expired_AtBoundary(entry, t) == (t - entry.timestamp) >= entry.ttl * 1000

Expired(entry, t) == (t - entry.timestamp) > entry.ttl * 1000

\* variant: the ttl argument stored as given, without the default
EffectiveTTL_Verbatim(ttl) == ttl

EffectiveTTL(ttl) == IF ttl /= 0 THEN ttl ELSE DEFAULT_TTL

Bump(S, part, field) ==
  [S EXCEPT !.stats[part][field] = @ + 1]

RemoveKey(S, part, key) ==
  [S EXCEPT !.cache[part][key] = NoEntry]

\* variant: get answering from the store without asking isCacheEnabled
GetRet_FlagIgnored(S, part, key, t, enabled) ==
  LET entry == S.cache[part][key] IN
  IF ~IsEntry(entry) THEN Undefined
  ELSE IF Expired(entry, t) THEN Undefined
  ELSE entry.data

\* get: the value returned, Undefined for absent
GetRet(S, part, key, t, enabled) ==
  LET entry == S.cache[part][key] IN
  IF ~enabled THEN Undefined
  ELSE IF ~IsEntry(entry) THEN Undefined
  ELSE IF Expired(entry, t) THEN Undefined
  ELSE entry.data

\* variant: a lookup that finds the entry counted as a miss
GetStore_HitAsMiss(S, part, key, t, enabled) ==
  LET entry == S.cache[part][key] IN
  IF ~enabled THEN S
  ELSE IF ~IsEntry(entry) THEN Bump(S, part, "misses")
  ELSE IF Expired(entry, t) THEN Bump(RemoveKey(S, part, key), part, "misses")
  ELSE Bump(S, part, "misses")

\* get: the store it leaves
GetStore(S, part, key, t, enabled) ==
  LET entry == S.cache[part][key] IN
  IF ~enabled THEN S
  ELSE IF ~IsEntry(entry) THEN Bump(S, part, "misses")
  ELSE IF Expired(entry, t) THEN Bump(RemoveKey(S, part, key), part, "misses")
  ELSE Bump(S, part, "hits")

\* variant: set leaves an entry that is already there
SetStore_KeepExisting(S, part, key, value, ttl, t, enabled) ==
  IF ~enabled THEN S
  ELSE IF IsEntry(S.cache[part][key]) THEN Bump(S, part, "writes")
  ELSE Bump([S EXCEPT !.cache[part][key] =
                 [data |-> value, timestamp |-> t, ttl |-> EffectiveTTL(ttl)]],
            part, "writes")

SetStore(S, part, key, value, ttl, t, enabled) ==
  IF ~enabled THEN S
  ELSE Bump([S EXCEPT !.cache[part][key] =
                 [data |-> value, timestamp |-> t, ttl |-> EffectiveTTL(ttl)]],
            part, "writes")

\* variant: del dropping every entry of the partition
DelStore_WholePartition(S, part, key) ==
  [S EXCEPT !.cache[part] = [k \in Keys |-> NoEntry]]

DelStore(S, part, key) == RemoveKey(S, part, key)

\* variant: clear resets hits and misses but not writes
ClearStore_KeepWrites(S, part) ==
  [S EXCEPT !.cache[part] = [k \in Keys |-> NoEntry],
            !.stats[part] = [hits |-> 0, misses |-> 0, writes |-> @.writes]]

ClearStore(S, part) ==
  [S EXCEPT !.cache[part] = [k \in Keys |-> NoEntry],
            !.stats[part] = [hits |-> 0, misses |-> 0, writes |-> 0]]

CacheKeys(S, part) == {k \in Keys : IsEntry(S.cache[part][k])}

Size(S, part) == Cardinality(CacheKeys(S, part))

CountersOK(S) ==
  \A part \in Partitions :
    /\ S.stats[part].hits <= MaxCount
    /\ S.stats[part].misses <= MaxCount
    /\ S.stats[part].writes <= MaxCount

Cur == Store(cache, stats)

\* ------------------------------------------------------------ bookkeeping
\* the record kept of the operation that completed last
\* (val: the argument of set, the entry get found, what clear removed)
Done(op, part, key, val, ttl, ret, at) ==
  [op |-> op, part |-> part, key |-> key, val |-> val, ttl |-> ttl,
   ret |-> ret, at |-> at, had |-> FALSE, held |-> 0]

\* the objects still referenced from the cache or from a suspended call
Referenced(c, l, q) ==
  {c["components"][CACHE_VERSION_KEY].data.ref :
       x \in {y \in {1} : IsEntry(c["components"][CACHE_VERSION_KEY])}}
  \cup {l[p].sv : p \in {r \in Procs : q[r] /= "idle"}}

Collect(h, c, l, q) ==
  [i \in ObjIds |-> IF i \in Referenced(c, l, q) THEN h[i] ELSE Free]

IdleLocal == [sv |-> NoObj, now |-> 0, flutterSha |-> "-"]

\* the callers of wrap: two provider requests that may be in flight at once
Wrappers == {"w1", "w2"}

IdleWrap == [pc |-> "idle", part |-> "-", key |-> "-", ttl |-> 0]

\* ------------------------------------------------ PersistentCache actions
Get(part, key) ==
  LET S == GetStore(Cur, part, key, now, cacheEnabled)
      r == GetRet(Cur, part, key, now, cacheEnabled) IN
  /\ CountersOK(S)
  /\ cache' = S.cache
  /\ stats' = S.stats
  /\ last' = Done("get", part, key, cache[part][key], 0, r, now)
  /\ UNCHANGED <<now, cacheEnabled, heap, pc, local, upstream, wrapping,
                 componentCache, request>>

Set(part, key, value, ttl) ==
  LET S == SetStore(Cur, part, key, value, ttl, now, cacheEnabled) IN
  /\ CountersOK(S)
  /\ cache' = S.cache
  /\ stats' = S.stats
  /\ last' = Done("set", part, key, value, ttl, Undefined, now)
  /\ UNCHANGED <<now, cacheEnabled, heap, pc, local, upstream, wrapping,
                 componentCache, request>>

Has(part, key) ==
  LET S == GetStore(Cur, part, key, now, cacheEnabled)
      r == GetRet(Cur, part, key, now, cacheEnabled) IN
  /\ CountersOK(S)
  /\ cache' = S.cache
  /\ stats' = S.stats
  /\ last' = Done("has", part, key, cache[part][key], 0, r /= Undefined, now)
  /\ UNCHANGED <<now, cacheEnabled, heap, pc, local, upstream, wrapping,
                 componentCache, request>>

Del(part, key) ==
  LET S == DelStore(Cur, part, key) IN
  /\ cache' = S.cache
  /\ stats' = S.stats
  /\ last' = Done("del", part, key, Undefined, 0, Undefined, now)
  /\ UNCHANGED <<now, cacheEnabled, heap, pc, local, upstream, wrapping,
                 componentCache, request>>

Clear(part) ==
  LET S == ClearStore(Cur, part) IN
  /\ cache' = S.cache
  /\ stats' = S.stats
  /\ heap' = Collect(heap, S.cache, local, pc)
  /\ last' = Done("clear", part, "-",
                  [size |-> Size(Cur, part), stats |-> stats[part]],
                  0, Undefined, now)
  /\ UNCHANGED <<now, cacheEnabled, pc, local, upstream, wrapping,
                 componentCache, request>>

\* a completed wrap: what it returned and whether it ran fetchFn
DoneWrap(w, part, key, ttl, value, computed) ==
  Done("wrap", part, key, [w |-> w, computed |-> computed], ttl, value, now)

\* variant: a call that finds another call fetching its key joins that call
\* instead of running fetchFn itself
WrapStart_SingleFlight(w, part, key, ttl) ==
  /\ wrapping[w].pc = "idle"
  /\ LET cached == GetRet(Cur, part, key, now, cacheEnabled)
         S == GetStore(Cur, part, key, now, cacheEnabled)
         joined == \E u \in Wrappers :
                     /\ wrapping[u].pc = "fetch"
                     /\ wrapping[u].part = part
                     /\ wrapping[u].key = key IN
     /\ CountersOK(S)
     /\ cache' = S.cache
     /\ stats' = S.stats
     /\ IF cached /= Undefined \/ joined THEN
          /\ last' = DoneWrap(w, part, key, ttl, cached, FALSE)
          /\ UNCHANGED wrapping
        ELSE
          /\ wrapping' = [wrapping EXCEPT ![w] =
                 [pc |-> "fetch", part |-> part, key |-> key, ttl |-> ttl]]
          /\ last' = Done("fetch", part, key, [w |-> w], ttl, Undefined, now)
  /\ UNCHANGED <<now, cacheEnabled, heap, pc, local, upstream,
                 componentCache, request>>

\* wrap up to its await of fetchFn, or to its return of the cached value
WrapStart(w, part, key, ttl) ==
  /\ wrapping[w].pc = "idle"
  /\ LET cached == GetRet(Cur, part, key, now, cacheEnabled)
         S == GetStore(Cur, part, key, now, cacheEnabled) IN
     /\ CountersOK(S)
     /\ cache' = S.cache
     /\ stats' = S.stats
     /\ IF cached /= Undefined THEN
          /\ last' = DoneWrap(w, part, key, ttl, cached, FALSE)
          /\ UNCHANGED wrapping
        ELSE
          /\ wrapping' = [wrapping EXCEPT ![w] =
                 [pc |-> "fetch", part |-> part, key |-> key, ttl |-> ttl]]
          /\ last' = Done("fetch", part, key, [w |-> w], ttl, Undefined, now)
  /\ UNCHANGED <<now, cacheEnabled, heap, pc, local, upstream,
                 componentCache, request>>

\* fetchFn resolved with value: set it and return it
WrapFinish(w, value) ==
  /\ wrapping[w].pc = "fetch"
  /\ LET part == wrapping[w].part
         key == wrapping[w].key
         ttl == wrapping[w].ttl
         S == SetStore(Cur, part, key, value, ttl, now, cacheEnabled) IN
     /\ CountersOK(S)
     /\ cache' = S.cache
     /\ stats' = S.stats
     /\ last' = DoneWrap(w, part, key, ttl, value, TRUE)
  /\ wrapping' = [wrapping EXCEPT ![w] = IdleWrap]
  /\ UNCHANGED <<now, cacheEnabled, heap, pc, local, upstream,
                 componentCache, request>>

\* fetchFn rejected: wrap rejects and stores nothing
WrapFail(w) ==
  /\ wrapping[w].pc = "fetch"
  /\ wrapping' = [wrapping EXCEPT ![w] = IdleWrap]
  /\ last' = Done("wrap_failed", wrapping[w].part, wrapping[w].key,
                  [w |-> w, computed |-> TRUE], wrapping[w].ttl, Undefined, now)
  /\ UNCHANGED <<now, cacheEnabled, cache, stats, heap, pc, local, upstream,
                 componentCache, request>>

\* ------------------------------------------------------------ environment
\* the clock advances by d ms while no handler runs
Advance(d) ==
  /\ now' = now + d
  /\ last' = Done("tick", "-", "-", Undefined, 0, Undefined, now + d)
  /\ UNCHANGED <<cacheEnabled, cache, stats, heap, pc, local, upstream, wrapping,
                 componentCache, request>>

TickMs == (now % Second) < MaxSkew /\ Advance(1)

TickSecond == SecOfHour(now) < MaxSec /\ Advance(Second)

TickHour == now \div Hour < MaxHours /\ Advance(Hour)

\* the same, for runs that last one hour longer
TickHourLong == now \div Hour <= MaxHours /\ Advance(Hour)

\* UserConfigManager.reset(): the only runtime write of cacheEnabled
ResetConfig ==
  /\ ~cacheEnabled
  /\ cacheEnabled' = TRUE
  /\ last' = Done("reset", "-", "-", Undefined, 0, Undefined, now)
  /\ UNCHANGED <<now, cache, stats, heap, pc, local, upstream, wrapping,
                 componentCache, request>>

\* -------------------------------------------------- CacheVersionManager
VersionEntry(S) == S.cache["components"][CACHE_VERSION_KEY]

\* the object a fresh CacheVersion literal gets: one that neither the store
\* nor a suspended call refers to
FreshId(c, l, q) == CHOOSE i \in ObjIds : i \notin Referenced(c, l, q)

Ref(i) == [ref |-> i]

\* variant: invalidateAllCaches clearing the components partition only
InvalidateStore_ComponentsOnly(S) == ClearStore(S, "components")

\* variant: invalidateAllCaches without the docs partition
InvalidateStore_SkipDocs(S) ==
  ClearStore(ClearStore(S, "components"), "icons")

\* invalidateAllCaches: clear() on the three partitions
InvalidateStore(S) ==
  ClearStore(ClearStore(ClearStore(S, "components"), "icons"), "docs")

\* variant: the record stamped with a zero lastChecked
StampedVersion_Epoch(t1) ==
  [version |-> CURRENT_CACHE_VERSION, lastChecked |-> 0,
   gitCommitSha |-> NoSha]

\* variant: the record stamped with a fingerprint in it
StampedVersion_Fingerprinted(t1) ==
  [version |-> CURRENT_CACHE_VERSION, lastChecked |-> t1,
   gitCommitSha |-> <<"a", "a">>]

\* setCurrentVersion: the object built at time t1 ...
StampedVersion(t1) ==
  [version |-> CURRENT_CACHE_VERSION, lastChecked |-> t1,
   gitCommitSha |-> NoSha]

\* variant: the record built but never stored
StampStore_NotStored(S, id, t2, enabled) == S

\* ... and the store after set(CACHE_VERSION_KEY, version) at time t2
StampStore(S, id, t2, enabled) ==
  SetStore(S, "components", CACHE_VERSION_KEY, Ref(id), 0, t2, enabled)

\* variant: the check counted as due already at exactly one interval
CheckDue_AtBoundary(tnow, rec) ==
  (tnow - rec.lastChecked) >= VERSION_CHECK_INTERVAL

CheckDue(tnow, rec) == (tnow - rec.lastChecked) > VERSION_CHECK_INTERVAL

\* variant: the version of the stored record never compared
VersionMismatch_Never(rec) == FALSE

VersionMismatch(rec) == rec.version /= CURRENT_CACHE_VERSION

\* checkUpstreamChanges, lines 84-86: the comparison with the stored SHA
CombinedSha(f, w) == <<f, w>>

\* variant: the comparison inverted, a change seen when the SHAs agree
ShaChanged_WhenEqual(rec, combined) ==
  rec.gitCommitSha /= NoSha /\ rec.gitCommitSha = combined

\* variant: a record without fingerprint compared like any other
ShaChanged_Unguarded(rec, combined) == rec.gitCommitSha /= combined

ShaChanged(rec, combined) ==
  rec.gitCommitSha /= NoSha /\ rec.gitCommitSha /= combined

\* the partitions that hold a provider entry
Populated(S) == {part \in Partitions : IsEntry(S.cache[part][ComponentKey])}

\* a completed checkCacheVersion: the branch it took (part), its result,
\* whether a version entry was in the store when it started (had) and how
\* many partitions held a provider entry before its last step (held)
DoneCheck(p, ret, at, path, had) ==
  [op |-> "check", part |-> path, key |-> CACHE_VERSION_KEY, val |-> p,
   ttl |-> 0, ret |-> ret, at |-> at, had |-> had,
   held |-> Cardinality(Populated(Cur))]

\* checkCacheVersion up to its first await (or to its return)
CheckStart(p) ==
  /\ pc[p] = "idle"
  /\ LET r  == GetRet(Cur, "components", CACHE_VERSION_KEY, now, cacheEnabled)
         S1 == GetStore(Cur, "components", CACHE_VERSION_KEY, now, cacheEnabled)
         id == FreshId(S1.cache, local, pc)
     IN
     IF r = Undefined THEN
       \* first time - set version
       \E d1 \in Skews(now) : \E d2 \in Skews(now + d1) :
         LET S2 == StampStore(S1, id, now + d1 + d2, cacheEnabled) IN
         /\ CountersOK(S2)
         /\ cache' = S2.cache
         /\ stats' = S2.stats
         /\ heap' = Collect([heap EXCEPT ![id] = StampedVersion(now + d1)],
                            S2.cache, local, pc)
         /\ now' = now + d1 + d2
         /\ last' = DoneCheck(p, TRUE, now + d1, "first", IsEntry(VersionEntry(Cur)))
         /\ UNCHANGED <<pc, local>>
     ELSE IF VersionMismatch(heap[r.ref]) THEN
       \E d1 \in Skews(now) : \E d2 \in Skews(now + d1) :
         LET S2 == StampStore(InvalidateStore(S1), id, now + d1 + d2,
                              cacheEnabled) IN
         /\ CountersOK(S2)
         /\ cache' = S2.cache
         /\ stats' = S2.stats
         /\ heap' = Collect([heap EXCEPT ![id] = StampedVersion(now + d1)],
                            S2.cache, local, pc)
         /\ now' = now + d1 + d2
         /\ last' = DoneCheck(p, TRUE, now + d1, "mismatch", TRUE)
         /\ UNCHANGED <<pc, local>>
     ELSE
       \E d1 \in Skews(now) :
         /\ CountersOK(S1)
         /\ cache' = S1.cache
         /\ stats' = S1.stats
         /\ now' = now + d1
         /\ IF CheckDue(now + d1, heap[r.ref]) THEN
              \* suspended in the GET of flutter/flutter
              /\ pc' = [pc EXCEPT ![p] = "flutter"]
              /\ local' = [local EXCEPT ![p] =
                     [sv |-> r.ref, now |-> now + d1, flutterSha |-> "-"]]
              /\ last' = Done("query", "-", "-", p, 0, Undefined, now + d1)
            ELSE
              /\ last' = DoneCheck(p, FALSE, now + d1, "fresh", TRUE)
              /\ UNCHANGED <<pc, local>>
         /\ UNCHANGED heap
  /\ UNCHANGED <<cacheEnabled, upstream, wrapping,
                 componentCache, request>>

\* lines 58-60 after checkUpstreamChanges returned false: the record object
\* h[sv] gets lastChecked = the call's now and is set again
\* variant: lastChecked reset to the epoch
TouchHeap_Epoch(h, sv, tnow) == [h EXCEPT ![sv].lastChecked = 0]

\* variant: lastChecked left as it was
TouchHeap_Skip(h, sv, tnow) == h

TouchHeap(h, sv, tnow) == [h EXCEPT ![sv].lastChecked = tnow]

\* the call returns false: with or without the SHA stored (lines 95-96)
FinishUnchanged(p, path, h, S) ==
  LET sv == local[p].sv
      S2 == StampStore(S, sv, now, cacheEnabled)
      pc2 == [pc EXCEPT ![p] = "idle"]
      l2 == [local EXCEPT ![p] = IdleLocal] IN
  /\ CountersOK(S2)
  /\ cache' = S2.cache
  /\ stats' = S2.stats
  /\ pc' = pc2
  /\ local' = l2
  /\ heap' = Collect(TouchHeap(h, sv, local[p].now), S2.cache, l2, pc2)
  /\ last' = DoneCheck(p, FALSE, local[p].now, path, TRUE)

\* the call found new commits: invalidate, stamp, return true
FinishChanged(p) ==
  LET pc2 == [pc EXCEPT ![p] = "idle"]
      l2 == [local EXCEPT ![p] = IdleLocal]
      id == FreshId(cache, l2, pc2) IN
  \E d \in Skews(now) :
    LET S2 == StampStore(InvalidateStore(Cur), id, now + d, cacheEnabled) IN
    /\ CountersOK(S2)
    /\ cache' = S2.cache
    /\ stats' = S2.stats
    /\ pc' = pc2
    /\ local' = l2
    /\ heap' = Collect([heap EXCEPT ![id] = StampedVersion(now)],
                       S2.cache, l2, pc2)
    /\ now' = now + d
    /\ last' = DoneCheck(p, TRUE, now, "changed", TRUE)

\* the GET of flutter/flutter settles
FlutterResponse(p, ok) ==
  /\ pc[p] = "flutter"
  /\ IF ok THEN
       /\ pc' = [pc EXCEPT ![p] = "web"]
       /\ local' = [local EXCEPT ![p].flutterSha = upstream.flutter]
       /\ last' = Done("query", "-", "-", p, 0, Undefined, now)
       /\ UNCHANGED <<now, cache, stats, heap>>
     ELSE
       /\ FinishUnchanged(p, "failed", heap, Cur)
       /\ UNCHANGED now
  /\ UNCHANGED <<cacheEnabled, upstream, wrapping,
                 componentCache, request>>

\* the GET of material-components/material-web settles
WebResponse(p, ok) ==
  /\ pc[p] = "web"
  /\ LET sv == local[p].sv
         combined == CombinedSha(local[p].flutterSha, upstream.web) IN
     IF ~ok THEN
       /\ FinishUnchanged(p, "failed", heap, Cur)
       /\ UNCHANGED now
     ELSE IF ShaChanged(heap[sv], combined) THEN
       FinishChanged(p)
     ELSE
       /\ FinishUnchanged(p, "unchanged",
                          [heap EXCEPT ![sv].gitCommitSha = combined],
                          StampStore(Cur, sv, now, cacheEnabled))
       /\ UNCHANGED now
  /\ UNCHANGED <<cacheEnabled, upstream, wrapping,
                 componentCache, request>>

\* the partitions one of whose counters is not zero
Counted(S) ==
  {part \in Partitions :
     S.stats[part].hits + S.stats[part].misses + S.stats[part].writes > 0}

\* invalidateAllCaches as the invalidate_all action of manage_cache_health
\* (val: the partitions that held a provider entry, and those that had
\* counted something, when it was called)
InvalidateAllCaches ==
  LET S == InvalidateStore(Cur) IN
  /\ cache' = S.cache
  /\ stats' = S.stats
  /\ heap' = Collect(heap, S.cache, local, pc)
  /\ last' = Done("invalidate_all", "-", "-",
                  [held |-> Populated(Cur), counted |-> Counted(Cur)],
                  0, Undefined, now)
  /\ UNCHANGED <<now, cacheEnabled, pc, local, upstream, wrapping,
                 componentCache, request>>

\* invalidateComponent, line 132: the derived key
KeyOf(componentName, framework) == framework \o ":" \o componentName \o ":default"

\* invalidateComponent as the invalidate_component action of
\* manage_cache_health, called with both arguments (val: the entry that
\* was under the key)
InvalidateComponent(componentName, framework) ==
  LET key == KeyOf(componentName, framework)
      S == DelStore(Cur, "components", key) IN
  /\ key \in Keys
  /\ cache' = S.cache
  /\ stats' = S.stats
  /\ last' = Done("invalidate_component", "components", key,
                  cache["components"][key], 0, Undefined, now)
  /\ UNCHANGED <<now, cacheEnabled, heap, pc, local, upstream, wrapping,
                 componentCache, request>>

\* getStats of the three partitions, as getCacheHealth reports them
StatsOf(S) ==
  [part \in Partitions |->
     [hits |-> S.stats[part].hits, misses |-> S.stats[part].misses,
      writes |-> S.stats[part].writes, size |-> Size(S, part)]]

\* getCacheHealth, lines 153-167: the report built from what get returned
\* (sv) and the clock read after it (tnow)
HealthReport(sv, tnow, S) ==
  LET timeSinceCheck ==
        IF sv = Undefined THEN 0 ELSE tnow - heap[sv.ref].lastChecked IN
  [version |-> IF sv = Undefined THEN "unknown" ELSE heap[sv.ref].version,
   lastChecked |-> IF sv = Undefined THEN 0 ELSE heap[sv.ref].lastChecked,
   timeSinceCheck |-> timeSinceCheck,
   needsCheck |-> timeSinceCheck > VERSION_CHECK_INTERVAL,
   stats |-> StatsOf(S)]

\* getCacheHealth as the status action of manage_cache_health
GetCacheHealth ==
  LET sv == GetRet(Cur, "components", CACHE_VERSION_KEY, now, cacheEnabled)
      S == GetStore(Cur, "components", CACHE_VERSION_KEY, now, cacheEnabled)
  IN
  \E d \in Skews(now) :
    /\ CountersOK(S)
    /\ cache' = S.cache
    /\ stats' = S.stats
    /\ heap' = Collect(heap, S.cache, local, pc)
    /\ now' = now + d
    /\ last' = Done("health", "components", CACHE_VERSION_KEY,
                    cache["components"][CACHE_VERSION_KEY], 0,
                    HealthReport(sv, now + d, S), now + d)
    /\ UNCHANGED <<cacheEnabled, pc, local, upstream, wrapping,
                 componentCache, request>>

\* a push to one of the two upstream repositories
UpstreamCommit(repo, sha) ==
  /\ upstream[repo] /= sha
  /\ upstream' = [upstream EXCEPT ![repo] = sha]
  /\ last' = Done("commit", "-", "-", Undefined, 0, Undefined, now)
  /\ UNCHANGED <<now, cacheEnabled, cache, stats, heap, pc, local, wrapping,
                 componentCache, request>>

\* ---------------------------------------------------------- initial state
\* what the flat-cache files hold when the process starts: nothing, or what
\* an earlier run left (written at time 0 with the default TTL)
DiskEntry(data) == [data |-> data, timestamp |-> 0, ttl |-> DEFAULT_TTL]

DiskCache(disk) ==
  [part \in Partitions |-> [k \in Keys |->
     IF disk = "empty" THEN NoEntry
     ELSE IF k = ComponentKey THEN DiskEntry([v |-> "v1"])
     ELSE IF part = "components" THEN DiskEntry(Ref("o1"))
     ELSE NoEntry]]

DiskHeap(disk, sha) ==
  [i \in ObjIds |->
     IF disk = "empty" \/ i /= "o1" THEN Free
     ELSE [version |-> IF disk = "old" THEN OLD_CACHE_VERSION
                       ELSE CURRENT_CACHE_VERSION,
           lastChecked |-> 0, gitCommitSha |-> sha]]

\* -------------------------------------------------- HttpClient (GitHub)
\* githubClient = new HttpClient(..., {retries: 3, minTimeout: 2000,
\* maxTimeout: 15000}), factor 2 from the constructor's defaults
RETRIES == 3
MIN_TIMEOUT == 2000
MAX_TIMEOUT == 15000
FACTOR == 2

\* what an attempt can end with: a 2xx response, client and server error
\* responses, or no response at all (NoResponse: timeout, network error)
NoResponse == 0
Statuses == {200, 401, 403, 404, 422, 429, 500, NoResponse}
\* the rate-limit header a 429 response carries, if any
Headers == {"none", "retry-after", "x-ratelimit-reset"}

IdleRequest == [pc |-> "idle", attempt |-> 0]

RECURSIVE Power(_, _)
Power(b, e) == IF e = 0 THEN 1 ELSE b * Power(b, e - 1)

\* p-retry: the wait before retry number n (1, 2, ...)
Backoff(n) ==
  LET t == MIN_TIMEOUT * Power(FACTOR, n - 1) IN
  IF t > MAX_TIMEOUT THEN MAX_TIMEOUT ELSE t

\* the error of the attempt reaches p-retry as an AbortError: a 429 that
\* carries x-ratelimit-reset (response interceptor), a 404 or a 401 (get)
Aborts(status, header) ==
  \/ status = 429 /\ header = "x-ratelimit-reset"
  \/ status = 404
  \/ status = 401

\* githubClient.get(url): pRetry makes the first attempt
HttpGet ==
  /\ request.pc = "idle"
  /\ request' = [pc |-> "attempt", attempt |-> 1]
  /\ last' = Done("http_attempt", "-", "-", [attempt |-> 1, delay |-> 0],
                  0, Undefined, now)
  /\ UNCHANGED <<now, cacheEnabled, cache, stats, heap, pc, local, upstream,
                 wrapping, componentCache>>

\* the attempt in progress ends with status (and header): the call
\* resolves, rejects, or p-retry waits and makes the next attempt
HttpAttemptEnds(status, header) ==
  LET n == request.attempt
      outcome == [attempts |-> n, status |-> status, header |-> header] IN
  /\ request.pc = "attempt"
  /\ header /= "none" => status = 429
  /\ IF status = 200
     THEN /\ request' = IdleRequest
          /\ last' = Done("http_get", "-", "-", outcome, 0, "resolved", now)
     ELSE IF Aborts(status, header) \/ n > RETRIES
     THEN /\ request' = IdleRequest
          /\ last' = Done("http_get", "-", "-", outcome, 0, "rejected", now)
     ELSE /\ request' = [pc |-> "attempt", attempt |-> n + 1]
          /\ last' = Done("http_attempt", "-", "-",
                          [attempt |-> n + 1, delay |-> Backoff(n),
                           status |-> status, header |-> header],
                          0, Undefined, now)
  /\ UNCHANGED <<now, cacheEnabled, cache, stats, heap, pc, local, upstream,
                 wrapping, componentCache>>

\* ----------------------------------------------- CacheManager (in memory)
\* componentCache = new CacheManager(3600): the stdTTL, in seconds
COMPONENT_CACHE_TTL == 3600
\* the key getComponentCode('button') wraps
FlutterKey == "flutter:button:default"
MemKeys == {FlutterKey}
\* ttl arguments of CacheManager.set and wrap: 0 stands for both 0 and an
\* omitted argument (ttl || 0 treats them alike)
MemTTLs == {0, 1}

\* a new CacheManager: no entry, counters at zero
EmptyMemory ==
  [data |-> [k \in MemKeys |-> NoEntry], hits |-> 0, misses |-> 0, keys |-> 0]

\* this.cache.keys().length
MemSize(d) == Cardinality({k \in MemKeys : IsEntry(d[k])})

\* the time until which NodeCache keeps a value set with the numeric ttl
\* it is given: a ttl of 0 is kept as 0, which stands for no expiry; the
\* stdTTL is used only when no ttl is passed, and set always passes one
Livetime(ttl, t) == IF ttl = 0 THEN 0 ELSE t + ttl * Second

\* NodeCache: the entry is still alive at time t
Alive(entry, t) == entry.t = 0 \/ entry.t >= t

\* CacheManager.get: the value returned
MemGetRet(C, key, t) ==
  LET entry == C.data[key] IN
  IF IsEntry(entry) /\ Alive(entry, t) THEN entry.v ELSE Undefined

\* CacheManager.get: the cache it leaves (an expired entry is deleted by
\* NodeCache and the 'expired' and 'del' handlers refresh keys)
MemGetStore(C, key, t) ==
  LET entry == C.data[key]
      d == [C.data EXCEPT ![key] = NoEntry] IN
  IF MemGetRet(C, key, t) /= Undefined THEN [C EXCEPT !.hits = @ + 1]
  ELSE IF IsEntry(entry)
       THEN [C EXCEPT !.data = d, !.keys = MemSize(d), !.misses = @ + 1]
       ELSE [C EXCEPT !.misses = @ + 1]

\* CacheManager.set: this.cache.set(key, value, ttl || 0); written and ttl
\* record the call that stored the entry and are read by no operation
MemSetStore(C, key, value, ttl, t) ==
  LET d == [C.data EXCEPT ![key] =
              [v |-> value, t |-> Livetime(ttl, t), written |-> t, ttl |-> ttl]] IN
  [C EXCEPT !.data = d, !.keys = MemSize(d)]

MemCountersOK(C) == C.hits <= MaxCount /\ C.misses <= MaxCount

MemGet(key) ==
  LET C == MemGetStore(componentCache, key, now) IN
  /\ MemCountersOK(C)
  /\ componentCache' = C
  /\ last' = Done("mem_get", "memory", key, componentCache.data[key], 0,
                  MemGetRet(componentCache, key, now), now)
  /\ UNCHANGED <<now, cacheEnabled, cache, stats, heap, pc, local, upstream,
                 wrapping,
                 request>>

MemSet(key, value, ttl) ==
  /\ componentCache' = MemSetStore(componentCache, key, value, ttl, now)
  /\ last' = Done("mem_set", "memory", key, value, ttl, TRUE, now)
  /\ UNCHANGED <<now, cacheEnabled, cache, stats, heap, pc, local, upstream,
                 wrapping,
                 request>>

\* CacheManager.wrap up to 'await fetchFn()': a hit returns the value
MemWrapStart(w, key, ttl) ==
  LET C == MemGetStore(componentCache, key, now)
      cached == MemGetRet(componentCache, key, now) IN
  /\ wrapping[w].pc = "idle"
  /\ MemCountersOK(C)
  /\ componentCache' = C
  /\ IF cached /= Undefined
     THEN /\ last' = Done("mem_wrap", "memory", key,
                          [w |-> w, computed |-> FALSE], ttl, cached, now)
          /\ UNCHANGED wrapping
     ELSE /\ last' = Done("mem_fetch", "memory", key, [w |-> w], ttl,
                          Undefined, now)
          /\ wrapping' = [wrapping EXCEPT ![w] =
                 [pc |-> "memfetch", part |-> "memory", key |-> key, ttl |-> ttl]]
  /\ UNCHANGED <<now, cacheEnabled, cache, stats, heap, pc, local, upstream,
                 request>>

\* fetchFn resolved with value: wrap sets it and returns it
MemWrapFinish(w, value) ==
  /\ wrapping[w].pc = "memfetch"
  /\ componentCache' = MemSetStore(componentCache, wrapping[w].key, value,
                                   wrapping[w].ttl, now)
  /\ wrapping' = [wrapping EXCEPT ![w] = IdleWrap]
  /\ last' = Done("mem_wrap", "memory", wrapping[w].key,
                  [w |-> w, computed |-> TRUE], wrapping[w].ttl, value, now)
  /\ UNCHANGED <<now, cacheEnabled, cache, stats, heap, pc, local, upstream,
                 request>>

Init ==
  /\ now = 0
  /\ cacheEnabled \in BOOLEAN
  /\ \E disk \in {"empty", "old", "current"} :
       \E sha \in {NoSha, CombinedSha("a", "a")} :
         /\ cache = DiskCache(disk)
         /\ heap = DiskHeap(disk, IF disk = "empty" THEN NoSha ELSE sha)
  /\ stats = [part \in Partitions |-> [hits |-> 0, misses |-> 0, writes |-> 0]]
  /\ pc = [p \in Procs |-> "idle"]
  /\ local = [p \in Procs |-> IdleLocal]
  /\ upstream = [flutter |-> "a", web |-> "a"]
  /\ wrapping = [w \in Wrappers |-> IdleWrap]
  /\ componentCache = EmptyMemory
  /\ request = IdleRequest
  /\ last = Done("init", "-", "-", Undefined, 0, Undefined, 0)

\* the checkCacheVersion call of this specification: calls do not overlap
Caller == "check_updates"

Next ==
  \/ \E part \in {"components", "icons"} :
       Set(part, ComponentKey, [v |-> "v2"], 0)
  \/ TickMs
  \/ TickHour
  \/ ResetConfig
  \/ CheckStart(Caller)
  \/ \E ok \in BOOLEAN : FlutterResponse(Caller, ok)
  \/ \E ok \in BOOLEAN : WebResponse(Caller, ok)
  \/ InvalidateAllCaches
  \/ \E repo \in {"flutter", "web"} : UpstreamCommit(repo, "b")

Spec == Init /\ [][Next]_vars

\* the manage_cache_health tool: status, invalidate_all, invalidate_component
\* and check_updates, with a provider writing components
NextManage ==
  \/ Set("components", ComponentKey, [v |-> "v2"], 0)
  \/ TickMs
  \/ TickHour
  \/ ResetConfig
  \/ CheckStart(Caller)
  \/ \E ok \in BOOLEAN : FlutterResponse(Caller, ok)
  \/ \E ok \in BOOLEAN : WebResponse(Caller, ok)
  \/ InvalidateAllCaches
  \/ InvalidateComponent("button", "web")
  \/ GetCacheHealth
  \/ \E repo \in {"flutter", "web"} : UpstreamCommit(repo, "b")

SpecManage == Init /\ [][NextManage]_vars

\* checkCacheVersion called again and again over several hours, with
\* nothing else touching the store
NextClock ==
  \/ TickMs
  \/ TickHourLong
  \/ ResetConfig
  \/ CheckStart(Caller)
  \/ \E ok \in BOOLEAN : FlutterResponse(Caller, ok)
  \/ \E ok \in BOOLEAN : WebResponse(Caller, ok)
  \/ \E repo \in {"flutter", "web"} : UpstreamCommit(repo, "b")

SpecClock == Init /\ [][NextClock]_vars

\* the partitions the provider operations of SpecStore act on
StoreParts == {"docs"}

NextStore ==
  \/ \E part \in StoreParts : Get(part, ComponentKey)
  \/ \E part \in StoreParts, v \in Values, ttl \in TTLs :
       Set(part, ComponentKey, v, ttl)
  \/ \E part \in StoreParts : Has(part, ComponentKey)
  \/ \E part \in StoreParts : Del(part, ComponentKey)
  \/ \E part \in StoreParts : Clear(part)
  \/ TickSecond
  \/ TickHour
  \/ ResetConfig

SpecStore == Init /\ [][NextStore]_vars

\* the wrap call of SpecWrap: one request at a time, with the TTL omitted
\* (as the providers call it) or of one second
Wrapper == "w1"

WrapTTLs == {0, 1}

\* what fetchFn may resolve with: a value, or undefined
FetchResults == Values \cup {Undefined}

\* a provider that reads through wrap, next to plain get and set
NextWrap ==
  \/ \E part \in StoreParts : Get(part, ComponentKey)
  \/ \E part \in StoreParts, v \in Values : Set(part, ComponentKey, v, 0)
  \/ \E part \in StoreParts, ttl \in WrapTTLs :
       WrapStart(Wrapper, part, ComponentKey, ttl)
  \/ \E v \in FetchResults : WrapFinish(Wrapper, v)
  \/ WrapFail(Wrapper)
  \/ TickSecond
  \/ TickHour
  \/ ResetConfig

SpecWrap == Init /\ [][NextWrap]_vars

\* two provider requests for the same key in flight at once, with the
\* partition cleared under them
NextRace ==
  \/ \E w \in Wrappers, part \in StoreParts :
       WrapStart(w, part, ComponentKey, 0)
  \/ \E w \in Wrappers, v \in Values : WrapFinish(w, v)
  \/ \E w \in Wrappers : WrapFail(w)
  \/ \E part \in StoreParts : Clear(part)
  \/ InvalidateAllCaches
  \/ TickSecond
  \/ TickHour
  \/ ResetConfig

SpecRace == Init /\ [][NextRace]_vars

\* ==================================================================== claims
\* a lookup (get or has) of the key that the operation before it set, with
\* no operation and no tick in between
LookupAfterSet ==
  /\ last.op = "set"
  /\ last'.op \in {"get", "has"}
  /\ last'.part = last.part
  /\ last'.key = last.key

LookupReturnsWritten ==
  /\ last'.op = "get" => last'.ret = last.val
  /\ last'.op = "has" => last'.ret = TRUE

\* C1 as stated: for every key, value and TTL, get(k) right after
\* set(k, v, t) returns v and has(k) returns true.
C1_AnySetIsReadBack ==
  [][LookupAfterSet => LookupReturnsWritten]_vars

\* C1, amended: while the cache-enabled flag is true and the TTL is not
\* negative (0 or omitted meaning the default), get(k) right after
\* set(k, v, t) returns v and has(k) returns true.
C1_ReadAfterWrite ==
  [][(LookupAfterSet /\ cacheEnabled /\ last.ttl >= 0)
       => LookupReturnsWritten]_vars

\* a get has just returned the value a set wrote at the same instant with a
\* one-second TTL
C1_Witness ==
  /\ last.op = "get"
  /\ cacheEnabled
  /\ last.ret \in Values
  /\ IsEntry(last.val)
  /\ last.val.ttl = 1
  /\ last.val.timestamp = last.at

\* what a get that found an entry (last.val) owes: absent and removed when
\* the entry's age exceeds ttl * 1000 ms, the entry's data otherwise
GetHonoursExpiry ==
  IF (last.at - last.val.timestamp) > last.val.ttl * 1000
  THEN /\ last.ret = Undefined
       /\ ~IsEntry(cache[last.part][last.key])
       /\ last.key \notin CacheKeys(Cur, last.part)
       /\ Size(Cur, last.part) < Cardinality(Keys)
  ELSE last.ret = last.val.data

\* C2 as stated: for every entry, a get past now - writtenAt > ttl * 1000
\* returns absent and removes the entry (size no longer counts it); up to
\* that age the entry is returned.
C2_ExpiryOnEveryGet ==
  (last.op = "get" /\ IsEntry(last.val)) => GetHonoursExpiry

\* C2, amended: the same, while the cache-enabled flag is true.
C2_ExpiryWhileEnabled ==
  (last.op = "get" /\ IsEntry(last.val) /\ cacheEnabled) => GetHonoursExpiry

\* a get has just found an entry one second past its one-second TTL, and
\* removed it
C2_Witness ==
  /\ last.op = "get"
  /\ cacheEnabled
  /\ IsEntry(last.val)
  /\ last.val.ttl = 1
  /\ last.at - last.val.timestamp = 2 * Second
  /\ last.ret = Undefined
  /\ ~IsEntry(cache[last.part][last.key])

\* a get of the key that the operation before it set with a TTL of 0
GetAfterSetZero ==
  /\ last.op = "set"
  /\ last.ttl = 0
  /\ last'.op = "get"
  /\ last'.part = last.part
  /\ last'.key = last.key

\* C3 as stated: an entry written with set(k, v, 0) is expired on the very
\* next get(k), which returns absent.
C3_ZeroTTLExpiresAtOnce ==
  [][GetAfterSetZero => last'.ret = Undefined]_vars

\* C3, amended: set(k, v, 0) stores the entry with the default TTL of 3600
\* seconds (0 is treated as an omitted TTL), so while the cache-enabled flag
\* is true the very next get(k) returns v.
C3_ZeroTTLIsDefault ==
  [][(GetAfterSetZero /\ cacheEnabled)
       => /\ last'.ret = last.val
          /\ last'.val.ttl = DEFAULT_TTL
          /\ cache'[last.part][last.key].ttl = DEFAULT_TTL]_vars

\* a get has just returned an entry that was written during this run, at the
\* same instant, and carries the default TTL
C3_Witness ==
  /\ last.op = "get"
  /\ cacheEnabled
  /\ last.ret \in Values
  /\ IsEntry(last.val)
  /\ last.val.ttl = DEFAULT_TTL
  /\ last.val.timestamp = last.at
  /\ last.at > 0

\* C4: after clear() on a partition, whatever it held, its hits, misses and
\* writes are 0, its size is 0 and every key reads as absent.
C4_ClearResets ==
  last.op = "clear" =>
    /\ stats[last.part].hits = 0
    /\ stats[last.part].misses = 0
    /\ stats[last.part].writes = 0
    /\ Size(Cur, last.part) = 0
    /\ \A k \in Keys :
         GetRet(Cur, last.part, k, now, cacheEnabled) = Undefined

\* a clear has just emptied a partition that held an entry and had counted
\* hits, misses and writes
C4_Witness ==
  /\ last.op = "clear"
  /\ last.val.size > 0
  /\ last.val.stats.hits > 0
  /\ last.val.stats.misses > 0
  /\ last.val.stats.writes > 0

\* ------------------------------------------------- checkCacheVersion claims
\* the stored version entry and the CacheVersion object it refers to
StoredEntry == cache["components"][CACHE_VERSION_KEY]

StoredRecord == heap[StoredEntry.data.ref]

\* a step that runs checkCacheVersion from its call to its first await or
\* to its return
CheckStartStep ==
  /\ pc[Caller] = "idle"
  /\ last'.op \in {"check", "query"}

\* the call returned true and a record of the current version, stamped
\* during the call and without a fingerprint, is stored
FreshRecordStamped ==
  /\ last'.op = "check"
  /\ last'.ret = TRUE
  /\ pc'[Caller] = "idle"
  /\ IsEntry(StoredEntry')
  /\ StoredRecord'.version = CURRENT_CACHE_VERSION
  /\ StoredRecord'.lastChecked \in now..now'
  /\ StoredRecord'.gitCommitSha = NoSha

\* C5 as stated: with no version record in the components partition,
\* checkCacheVersion() returns true and leaves a record under cache:version
\* with the compiled-in version, lastChecked = the time of the call and no
\* fingerprint.
C5_FirstRunAlwaysStamps ==
  [][(CheckStartStep /\ ~IsEntry(StoredEntry)) => FreshRecordStamped]_vars

\* C5, amended: the same, while the cache-enabled flag is true.
C5_FirstRunStamps ==
  [][(CheckStartStep /\ ~IsEntry(StoredEntry) /\ cacheEnabled)
       => FreshRecordStamped]_vars

\* a call that found no version entry has just stamped the first record
C5_Witness ==
  /\ last.op = "check"
  /\ last.part = "first"
  /\ ~last.had
  /\ last.ret = TRUE
  /\ cacheEnabled
  /\ IsEntry(StoredEntry)
  /\ StoredRecord.lastChecked = last.at

\* no partition holds a provider entry and all counters but the write of
\* the fresh record are zero
AllCleared ==
  /\ \A part \in Partitions : cache'[part][ComponentKey] = NoEntry
  /\ \A part \in Partitions :
       stats'[part].hits = 0 /\ stats'[part].misses = 0

\* C6 (caching enabled): whenever the stored record's version differs from
\* the compiled-in constant, checkCacheVersion() clears all three
\* partitions, stamps a fresh record and returns true without querying
\* upstream, however old the record is.
C6_MismatchAlwaysInvalidates ==
  [][(CheckStartStep /\ cacheEnabled /\ IsEntry(StoredEntry)
        /\ VersionMismatch(StoredRecord))
       => (FreshRecordStamped /\ AllCleared)]_vars

\* C7 as stated: after checkCacheVersion() returned true on a version
\* mismatch, components, icons and docs all report size 0.
C7_MismatchLeavesAllEmpty ==
  (last.op = "check" /\ last.part = "mismatch")
    => \A part \in Partitions : Size(Cur, part) = 0

\* C7, amended: after checkCacheVersion() took the version-mismatch branch,
\* icons and docs report size 0 and components reports size 1: it holds the
\* freshly stamped version record and nothing else.
C7_MismatchLeavesOnlyRecord ==
  (last.op = "check" /\ last.part = "mismatch")
    => /\ Size(Cur, "icons") = 0
       /\ Size(Cur, "docs") = 0
       /\ CacheKeys(Cur, "components") = {CACHE_VERSION_KEY}
       /\ Size(Cur, "components") = 1
       /\ last.ret = TRUE

\* a call has just taken the version-mismatch branch on a store whose three
\* partitions each held a provider entry
C7_Witness ==
  /\ last.op = "check"
  /\ last.part = "mismatch"
  /\ last.held = Cardinality(Partitions)

\* C8 (caching enabled): a checkCacheVersion() call made more than 1 hour
\* after the lastChecked of a stored record of the current version queries
\* the upstream repositories before it decides its result.
C8_DueCheckQueriesUpstream ==
  [][(CheckStartStep /\ cacheEnabled /\ IsEntry(StoredEntry)
        /\ ~VersionMismatch(StoredRecord)
        /\ now - StoredRecord.lastChecked > VERSION_CHECK_INTERVAL)
       => pc'[Caller] = "flutter"]_vars

\* a call of checkCacheVersion whose now (line 44) is at most one interval
\* after the lastChecked of a stored record of the current version
FreshCheck ==
  /\ CheckStartStep
  /\ IsEntry(StoredEntry)
  /\ ~VersionMismatch(StoredRecord)
  /\ now' - StoredRecord.lastChecked <= VERSION_CHECK_INTERVAL

\* no partition lost an entry or had its counters reset
NothingCleared ==
  /\ \A part \in Partitions :
       cache'[part][ComponentKey] = cache[part][ComponentKey]
  /\ \A part \in Partitions :
       /\ stats'[part].hits >= stats[part].hits
       /\ stats'[part].misses >= stats[part].misses
       /\ stats'[part].writes >= stats[part].writes

\* the call returned false without a query and without touching the store
ReportedUnchanged ==
  /\ last'.op = "check"
  /\ last'.ret = FALSE
  /\ pc'[Caller] = "idle"
  /\ NothingCleared
  /\ StoredEntry' = StoredEntry
  /\ StoredRecord' = StoredRecord

\* C9 as stated: with a record of the current version and
\* now - lastChecked <= 1 hour, checkCacheVersion() returns false, queries
\* nothing, clears nothing and leaves the record unchanged.
C9_FreshAlwaysNoop ==
  [][FreshCheck => ReportedUnchanged]_vars

\* C9, amended: the same, while the cache-enabled flag is true.
C9_FreshIsNoop ==
  [][(FreshCheck /\ cacheEnabled) => ReportedUnchanged]_vars

\* a call has just returned false exactly one interval after lastChecked
C9_Witness ==
  /\ last.op = "check"
  /\ last.part = "fresh"
  /\ last.ret = FALSE
  /\ cacheEnabled
  /\ IsEntry(StoredEntry)
  /\ last.at - StoredRecord.lastChecked = VERSION_CHECK_INTERVAL

\* the step in which a suspended call learns that one of its two upstream
\* queries failed
FailedCheck ==
  /\ pc[Caller] \in {"flutter", "web"}
  /\ last'.op = "check"
  /\ last'.part = "failed"

\* C10: when the upstream check is due and either query fails,
\* checkCacheVersion() returns false, clears no partition, keeps the
\* fingerprint it had read and advances lastChecked to the call's now.
C10_FailedQueryKeepsCache ==
  [][FailedCheck =>
       /\ last'.ret = FALSE
       /\ pc'[Caller] = "idle"
       /\ NothingCleared
       /\ IsEntry(StoredEntry')
       /\ StoredRecord'.version = CURRENT_CACHE_VERSION
       /\ StoredRecord'.gitCommitSha = heap[local[Caller].sv].gitCommitSha
       /\ StoredRecord'.lastChecked = local[Caller].now
       /\ StoredRecord'.lastChecked > heap[local[Caller].sv].lastChecked]_vars

\* a call whose query failed has just returned: the three partitions still
\* hold their provider entries and the record still has its fingerprint
C10_Witness ==
  /\ last.op = "check"
  /\ last.part = "failed"
  /\ last.ret = FALSE
  /\ Populated(Cur) = Partitions
  /\ IsEntry(StoredEntry)
  /\ StoredRecord.gitCommitSha /= NoSha
  /\ StoredRecord.lastChecked = last.at

\* the step in which a suspended call receives the second upstream answer
\* and the record it read carries a fingerprint other than the fetched one
FingerprintDiffers ==
  /\ pc[Caller] = "web"
  /\ last'.op = "check"
  /\ last'.part /= "failed"
  /\ heap[local[Caller].sv].gitCommitSha /= NoSha
  /\ heap[local[Caller].sv].gitCommitSha
       /= CombinedSha(local[Caller].flutterSha, upstream.web)

\* C11: when the upstream check is due and the fetched combined fingerprint
\* differs from a recorded one, checkCacheVersion() clears the three
\* partitions (no provider entry, counters zero but for the write of the
\* new record), stamps a fresh version record and returns true.
C11_ChangedFingerprintInvalidates ==
  [][FingerprintDiffers =>
       /\ FreshRecordStamped
       /\ AllCleared
       /\ CacheKeys(Cur, "components")' = {CACHE_VERSION_KEY}
       /\ stats'["components"].writes = 1
       /\ stats'["icons"].writes = 0
       /\ stats'["docs"].writes = 0]_vars

\* a call has just found new upstream commits and cleared three partitions
\* that each held a provider entry
C11_Witness ==
  /\ last.op = "check"
  /\ last.part = "changed"
  /\ last.ret = TRUE
  /\ last.held = Cardinality(Partitions)
  /\ Populated(Cur) = {}
  /\ IsEntry(StoredEntry)
  /\ StoredRecord.lastChecked = last.at

\* C12 (caching enabled): whenever checkCacheVersion() returns true, the
\* cache was invalidated during the call: every provider entry that
\* components, icons or docs held before the call returned is absent after.
C12_TrueMeansInvalidated ==
  [][(cacheEnabled /\ last'.op = "check" /\ last'.ret = TRUE)
       => \A part \in Partitions :
            IsEntry(cache[part][ComponentKey])
              => ~IsEntry(cache'[part][ComponentKey])]_vars

\* a call of checkCacheVersion that starts right after another one returned,
\* with no operation and no tick in between, and is over (or at its first
\* await) within one interval of the clock reading of the first
SecondCheck ==
  /\ last.op = "check"
  /\ CheckStartStep
  /\ now' - last.at <= VERSION_CHECK_INTERVAL

\* the call returned false at once and cleared nothing
NoInvalidation ==
  /\ last'.op = "check"
  /\ last'.ret = FALSE
  /\ pc'[Caller] = "idle"
  /\ NothingCleared

\* C13 as stated: of two checkCacheVersion() calls in immediate succession
\* (the second within the 1-hour window after the first), the second
\* performs no invalidation and returns false, whatever the starting state.
C13_SecondCallAlwaysNoop ==
  [][SecondCheck => NoInvalidation]_vars

\* C13, amended: while the cache-enabled flag is true, if the first call
\* wrote the version record (it returned true, or it queried upstream), the
\* second call queries nothing, performs no invalidation and returns false.
C13_SecondCallIsNoop ==
  [][(SecondCheck /\ cacheEnabled /\ last.part /= "fresh")
       => NoInvalidation]_vars

\* a call has just returned false at the very instant at which the call
\* before it stamped the record, with every partition still populated
C13_Witness ==
  /\ last.op = "check"
  /\ last.part = "fresh"
  /\ last.ret = FALSE
  /\ cacheEnabled
  /\ IsEntry(StoredEntry)
  /\ StoredRecord.lastChecked = last.at
  /\ StoredEntry.timestamp = last.at
  /\ last.at > 0
  /\ Populated(Cur) = Partitions

\* ------------------------------------------------ manage_cache_health claims
\* a version record is stored and carries the compiled-in version
RecordCurrent ==
  /\ IsEntry(StoredEntry)
  /\ StoredRecord.version = CURRENT_CACHE_VERSION

\* no version record of another version is stored
NoStaleRecord ==
  IsEntry(StoredEntry) => StoredRecord.version = CURRENT_CACHE_VERSION

C15_LastCheckedNeverDecreases ==
  [][/\ (IsEntry(StoredEntry) /\ IsEntry(StoredEntry'))
          => StoredRecord'.lastChecked >= StoredRecord.lastChecked
     /\ (pc[Caller] /= "idle" /\ IsEntry(StoredEntry'))
          => StoredRecord'.lastChecked >= heap[local[Caller].sv].lastChecked
    ]_vars

\* a call made more than two hours into the run, after its upstream query,
\* has just replaced a record stamped earlier in the run by one with
\* lastChecked = its own clock reading
C15_Witness ==
  /\ last.op = "check"
  /\ last.part \in {"failed", "unchanged"}
  /\ last.at > 2 * VERSION_CHECK_INTERVAL
  /\ IsEntry(StoredEntry)
  /\ StoredRecord.lastChecked = last.at

\* C16: after invalidateAllCaches() components, icons and docs each hold no
\* entry (not even the version record) and have hits, misses and writes at
\* 0, whatever they held before.
C16_InvalidateAllClears ==
  last.op = "invalidate_all" =>
    \A part \in Partitions :
      /\ CacheKeys(Cur, part) = {}
      /\ Size(Cur, part) = 0
      /\ StatsOf(Cur)[part] = [hits |-> 0, misses |-> 0, writes |-> 0, size |-> 0]
      /\ \A k \in Keys : GetRet(Cur, part, k, now, cacheEnabled) = Undefined

\* invalidateAllCaches has just cleared three partitions that each held a
\* provider entry, two of them with counters that were not zero
C16_Witness ==
  /\ last.op = "invalidate_all"
  /\ last.val.held = Partitions
  /\ {"components", "icons"} \subseteq last.val.counted
  /\ \A part \in Partitions : Size(Cur, part) = 0

\* C17: invalidateComponent(name, framework) removes the entry under
\* '{framework}:{name}:default' in components if there is one, and leaves
\* every other key of the three partitions, the version record and its
\* object, and every counter as they were.
C17_InvalidateComponentFrame ==
  [][last'.op = "invalidate_component" =>
       /\ last'.key = ComponentKey
       /\ cache' = [cache EXCEPT !["components"][ComponentKey] = NoEntry]
       /\ StoredEntry' = StoredEntry
       /\ stats' = stats
       /\ heap' = heap]_vars

\* invalidateComponent has just removed an entry from components while
\* the version record and the entries of icons and docs stayed, with
\* counters that are not zero
C17_Witness ==
  /\ last.op = "invalidate_component"
  /\ IsEntry(last.val)
  /\ ~IsEntry(cache["components"][ComponentKey])
  /\ IsEntry(StoredEntry)
  /\ Populated(Cur) = {"icons", "docs"}
  /\ Counted(Cur) /= {}

\* C18 (caching enabled, a version record stored): the needsCheck that
\* getCacheHealth() reports is true exactly when more than 1 hour has
\* passed between the lastChecked of the stored record and the clock
\* reading of the call.
C18_NeedsCheckTracksAge ==
  [][(cacheEnabled /\ last'.op = "health" /\ IsEntry(StoredEntry))
       => (last'.ret.needsCheck
             <=> (last'.at - StoredRecord.lastChecked
                    > VERSION_CHECK_INTERVAL))]_vars

\* C19: getCacheHealth() is read-only: the entries of the three partitions,
\* the version record among them, and the hits, misses and writes of each
\* partition are the same after the call as before it.
C19_HealthIsReadOnly ==
  [][last'.op = "health" =>
       /\ cache' = cache
       /\ stats' = stats
       /\ heap' = heap]_vars

\* ------------------------------------------------------ cache-enabled flag
\* the step is a call of wrap, from its get to its await or its return
WrapStartStep ==
  /\ wrapping[Wrapper].pc = "idle"
  /\ last'.op \in {"wrap", "fetch"}

\* the first get or set after the flag turned true
FirstCallAfterReset(op) ==
  /\ last.op = "reset"
  /\ last'.op = op

\* C20: while the cache-enabled flag is false, get returns absent for every
\* key and changes nothing, set stores nothing, and every wrap call goes on
\* to fetchFn and returns what it computed without storing it; the flag is
\* read by each call, so the first get after it turned true returns an
\* unexpired entry that was stored earlier, and the first set stores.
C20_FlagGatesGetAndSet ==
  [][/\ (~cacheEnabled /\ last'.op = "get")
          => (last'.ret = Undefined /\ cache' = cache /\ stats' = stats)
     /\ (~cacheEnabled /\ last'.op = "set")
          => (cache' = cache /\ stats' = stats)
     /\ (~cacheEnabled /\ WrapStartStep)
          => (wrapping'[Wrapper].pc = "fetch"
                /\ cache' = cache /\ stats' = stats)
     /\ (~cacheEnabled /\ last'.op = "wrap")
          => (last'.val.computed /\ cache' = cache /\ stats' = stats)
     /\ (FirstCallAfterReset("get")
           /\ IsEntry(cache[last'.part][last'.key])
           /\ ~Expired(cache[last'.part][last'.key], now))
          => last'.ret = cache[last'.part][last'.key].data
     /\ FirstCallAfterReset("set")
          => (/\ IsEntry(cache'[last'.part][last'.key])
              /\ cache'[last'.part][last'.key].data = last'.val
              /\ stats'[last'.part].writes = stats[last'.part].writes + 1)
    ]_vars

\* with the flag false a wrap has just returned a value it had to compute,
\* although an unexpired entry is stored under its key; nothing was counted
C20_Witness ==
  /\ ~cacheEnabled
  /\ last.op = "wrap"
  /\ last.val.computed
  /\ IsEntry(cache[last.part][last.key])
  /\ ~Expired(cache[last.part][last.key], now)
  /\ cache[last.part][last.key].data /= last.ret
  /\ stats[last.part] = [hits |-> 0, misses |-> 0, writes |-> 0]

\* ------------------------------------------------------------- wrap claims
\* the entry under the key of the wrap call that the step starts
WrappedEntry == cache[last'.part][last'.key]

\* a wrap call on a key that holds no entry, or an expired one
FirstWrap ==
  /\ WrapStartStep
  /\ (~IsEntry(WrappedEntry) \/ Expired(WrappedEntry, now))

\* the call counts one miss and goes on to fetchFn
MissThenCompute ==
  /\ wrapping'[Wrapper].pc = "fetch"
  /\ stats'[last'.part].misses = stats[last'.part].misses + 1
  /\ stats'[last'.part].hits = stats[last'.part].hits

\* a wrap call that starts right after a wrap of the same key returned the
\* value it had computed: no expiry, del or clear lies between the two
SecondWrap ==
  /\ last.op = "wrap"
  /\ last.val.computed
  /\ WrapStartStep
  /\ last'.part = last.part
  /\ last'.key = last.key
  /\ (IsEntry(WrappedEntry) => ~Expired(WrappedEntry, now))

\* the call returns the value of the first call without fetchFn and counts
\* one hit
HitWithoutCompute ==
  /\ last'.op = "wrap"
  /\ ~last'.val.computed
  /\ last'.ret = last.ret
  /\ wrapping'[Wrapper].pc = "idle"
  /\ stats'[last'.part].hits = stats[last'.part].hits + 1
  /\ stats'[last'.part].misses = stats[last'.part].misses

\* C21 as stated: of two sequential wrap calls on a key, with no expiry,
\* del or clear in between, the first counts one miss and computes, the
\* second returns the stored value, counts one hit and does not compute.
C21_SecondWrapAlwaysHits ==
  [][/\ FirstWrap => MissThenCompute
     /\ SecondWrap => HitWithoutCompute]_vars

\* C21, amended: the same, while the cache-enabled flag is true and fetchFn
\* resolved with a value other than undefined.
C21_SecondWrapHits ==
  [][/\ (FirstWrap /\ cacheEnabled) => MissThenCompute
     /\ (SecondWrap /\ cacheEnabled /\ last.ret /= Undefined)
          => HitWithoutCompute]_vars

\* a wrap has just returned, as a hit, the value that an earlier wrap of
\* this run computed and stored with a one-second TTL
C21_Witness ==
  /\ last.op = "wrap"
  /\ ~last.val.computed
  /\ cacheEnabled
  /\ last.ret \in Values
  /\ last.ttl = 1
  /\ cache[last.part][last.key].ttl = 1
  /\ cache[last.part][last.key].timestamp = last.at
  /\ stats[last.part].hits = 1
  /\ stats[last.part].misses = 1
  /\ stats[last.part].writes = 1

\* a wrap call that starts on a key holding no readable entry while
\* another call for the same key is still awaiting its fetchFn
ConcurrentMiss ==
  /\ last'.op \in {"wrap", "fetch"}
  /\ wrapping[last'.val.w].pc = "idle"
  /\ (~IsEntry(WrappedEntry) \/ Expired(WrappedEntry, now))
  /\ \E u \in Wrappers \ {last'.val.w} :
       /\ wrapping[u].pc = "fetch"
       /\ wrapping[u].part = last'.part
       /\ wrapping[u].key = last'.key

\* a wrap call returns the value its fetchFn resolved with, after its set
ComputedReturn ==
  /\ last'.op = "wrap"
  /\ last'.val.computed

\* what a get of the key of the last operation would return
Readable == GetRet(Cur, last.part, last.key, now, cacheEnabled)

\* C22 as stated: a wrap call started for a missing key while another is
\* in flight for it runs fetchFn too (no coalescing), and after each set
\* the readable value is the one that set stored: the last set wins.
C22_LastSetAlwaysWins ==
  [][/\ ConcurrentMiss => wrapping'[last'.val.w].pc = "fetch"
     /\ ComputedReturn => Readable' = last'.ret]_vars

\* C22, amended: every such call runs fetchFn, and while the cache-enabled
\* flag is true the value readable after each set is the one it stored.
C22_LastSetWins ==
  [][/\ ConcurrentMiss => wrapping'[last'.val.w].pc = "fetch"
     /\ (ComputedReturn /\ cacheEnabled)
          => (/\ Readable' = last'.ret
              /\ cache'[last'.part][last'.key].timestamp = now)]_vars

\* two calls that both missed at time 0 have both computed and stored: the
\* second value stored is the readable one
C22_Witness ==
  /\ now = 0
  /\ cacheEnabled
  /\ last.op = "wrap"
  /\ last.val.computed
  /\ \A w \in Wrappers : wrapping[w].pc = "idle"
  /\ stats[last.part] = [hits |-> 0, misses |-> 2, writes |-> 2]
  /\ Readable = last.ret

\* the last operation emptied the partition the next one works on
JustCleared ==
  \/ last.op = "invalidate_all"
  \/ last.op = "clear" /\ last.part = last'.part

\* C30: a wrap call whose fetchFn was started before a clear (or
\* invalidateAllCaches) and resolves right after it leaves no entry in
\* the cleared partition.
C30_ClearedStaysCleared ==
  [][(JustCleared /\ ComputedReturn)
       => ~IsEntry(cache'[last'.part][last'.key])]_vars

\* --------------------------------------------- manage_cache_health (tool)
\* an optional argument the caller left out
NoArg == "undefined"
\* the argument values tried ("" is a string the schema accepts)
ComponentArgs == {NoArg, "", "button"}
FrameworkArgs == {NoArg, "web", "flutter"}

\* !args.componentName, !args.framework
Missing(arg) == arg = NoArg \/ arg = ""

\* variant: an omitted framework defaults to web
ManageInvalidateComponent_DefaultWeb(componentName, framework) ==
  LET args == [componentName |-> componentName, framework |-> framework]
      key == KeyOf(componentName, IF Missing(framework) THEN "web" ELSE framework)
      S == IF key \in Keys THEN DelStore(Cur, "components", key) ELSE Cur IN
  /\ cache' = S.cache
  /\ stats' = S.stats
  /\ last' = Done("manage_cache_health", "components", key, args, 0,
                  [isError |-> Missing(componentName)], now)
  /\ UNCHANGED <<now, cacheEnabled, heap, pc, local, upstream, wrapping,
                 componentCache, request>>

\* manageCacheHealth({action: 'invalidate_component', componentName,
\* framework}): the throw of line 50 is caught at line 86 and becomes an
\* isError result; otherwise invalidateComponent deletes the derived key
ManageInvalidateComponent(componentName, framework) ==
  LET args == [componentName |-> componentName, framework |-> framework]
      key == KeyOf(componentName, framework)
      S == IF key \in Keys THEN DelStore(Cur, "components", key) ELSE Cur IN
  IF Missing(componentName) \/ Missing(framework)
  THEN /\ last' = Done("manage_cache_health", "components", "-", args, 0,
                       [isError |-> TRUE], now)
       /\ UNCHANGED <<now, cacheEnabled, cache, stats, heap, pc, local,
                      upstream, wrapping,
                 componentCache, request>>
  ELSE /\ cache' = S.cache
       /\ stats' = S.stats
       /\ last' = Done("manage_cache_health", "components", key, args, 0,
                       [isError |-> FALSE], now)
       /\ UNCHANGED <<now, cacheEnabled, heap, pc, local, upstream, wrapping,
                 componentCache, request>>

\* the invalidate_component action called with any arguments, on a
\* component partition that providers fill
NextTool ==
  \/ \E v \in Values : Set("components", ComponentKey, v, 0)
  \/ Get("components", ComponentKey)
  \/ \E c \in ComponentArgs, f \in FrameworkArgs :
       ManageInvalidateComponent(c, f)
  \/ TickSecond
  \/ TickHour
  \/ ResetConfig

SpecTool == Init /\ [][NextTool]_vars

\* invalidate_component was called without componentName or framework
InvalidCall ==
  /\ last.op = "manage_cache_health"
  /\ Missing(last.val.componentName) \/ Missing(last.val.framework)

\* C23: invalidate_component called without componentName or without
\* framework returns an isError result and leaves every key and counter
\* of every partition as it was.
C23_MissingArgIsError ==
  [][InvalidCall' => (/\ last'.ret.isError
                      /\ cache' = cache
                      /\ stats' = stats)]_vars

\* the call without framework was refused while the component was cached
C23_Witness ==
  /\ InvalidCall
  /\ last.val.componentName = "button"
  /\ last.val.framework = NoArg
  /\ last.ret.isError
  /\ IsEntry(cache["components"][ComponentKey])

\* ------------------------------------------------- getStats and hit rate
\* variant: the rate cut after two decimals instead of rounded
HitRate_Truncated(hits, misses) ==
  IF hits + misses > 0
  THEN [decimals |-> 2, hundredths |-> (hits * 10000) \div (hits + misses)]
  ELSE [decimals |-> 0, hundredths |-> 0]

\* getStats, lines 129-132: ((hits / total) * 100).toFixed(2) + '%' as the
\* number of hundredths of a percent it prints with two decimals, and the
\* literal '0%' (no decimals) when there was no lookup
HitRate(hits, misses) ==
  IF hits + misses > 0
  THEN [decimals |-> 2,
        hundredths |-> (2 * hits * 10000 + (hits + misses))
                         \div (2 * (hits + misses))]
  ELSE [decimals |-> 0, hundredths |-> 0]

\* getStats of a partition
GetStats(part) ==
  /\ last' = Done("getStats", part, "-", Undefined, 0,
                  [hits |-> stats[part].hits,
                   misses |-> stats[part].misses,
                   writes |-> stats[part].writes,
                   hitRate |-> HitRate(stats[part].hits, stats[part].misses),
                   size |-> Size(Cur, part)],
                  now)
  /\ UNCHANGED <<now, cacheEnabled, cache, stats, heap, pc, local, upstream,
                 wrapping,
                 componentCache, request>>

\* lookups, writes of values and of undefined, deletions and clears on
\* one partition, with getStats read in between
NextStats ==
  \/ \E part \in StoreParts : Get(part, ComponentKey)
  \/ \E part \in StoreParts : Has(part, ComponentKey)
  \/ \E part \in StoreParts, v \in FetchResults : Set(part, ComponentKey, v, 0)
  \/ \E part \in StoreParts : Del(part, ComponentKey)
  \/ \E part \in StoreParts : Clear(part)
  \/ \E part \in StoreParts : GetStats(part)
  \/ TickHour
  \/ ResetConfig

SpecStats == Init /\ [][NextStats]_vars

\* the step is a get or a has
Lookup == last'.op \in {"get", "has"}

\* the result of the lookup is absent
Absent ==
  \/ last'.op = "get" /\ last'.ret = Undefined
  \/ last'.op = "has" /\ last'.ret = FALSE

\* the counter of the partition looked up goes up by one, the other stays
CountsHit ==
  /\ stats'[last'.part].hits = stats[last'.part].hits + 1
  /\ stats'[last'.part].misses = stats[last'.part].misses

CountsMiss ==
  /\ stats'[last'.part].misses = stats[last'.part].misses + 1
  /\ stats'[last'.part].hits = stats[last'.part].hits

\* the lookup counters of every partition stay as they are
CountsNothing ==
  \A part \in Partitions :
    /\ stats'[part].hits = stats[part].hits
    /\ stats'[part].misses = stats[part].misses

\* the rate getStats reported is hits / (hits + misses) as a percentage
\* rounded to two decimals, or "0%" when nothing was looked up
RateReported ==
  LET r == last'.ret
      total == r.hits + r.misses IN
  /\ r.hits = stats[last'.part].hits
  /\ r.misses = stats[last'.part].misses
  /\ IF total = 0
     THEN r.hitRate = [decimals |-> 0, hundredths |-> 0]
     ELSE /\ r.hitRate.decimals = 2
          /\ 2 * r.hitRate.hundredths * total - 2 * r.hits * 10000 <= total
          /\ 2 * r.hits * 10000 - 2 * r.hitRate.hundredths * total <= total

\* every operation other than a lookup or a clear leaves hits and misses,
\* and clear sets them to zero: hits + misses counts the lookups since the
\* last clear
OnlyLookupsCount ==
  /\ last'.op \in {"set", "del", "getStats", "reset"} => CountsNothing
  /\ now' /= now => CountsNothing
  /\ last'.op = "clear" => /\ stats'[last'.part].hits = 0
                           /\ stats'[last'.part].misses = 0

\* C24 as stated: every get and has increments exactly one of hits and
\* misses by one, hits when a value is returned and misses when the result
\* is absent; nothing else counts; getStats reports hits / (hits + misses)
\* as a percentage, "0%" before any lookup.
C24_EveryLookupCounts ==
  [][/\ Lookup => IF Absent THEN CountsMiss ELSE CountsHit
     /\ OnlyLookupsCount
     /\ last'.op = "getStats" => RateReported]_vars

\* the lookup finds an entry whose TTL has not elapsed
Found ==
  /\ IsEntry(WrappedEntry)
  /\ ~Expired(WrappedEntry, now)

\* C24, amended: while the cache-enabled flag is true every get and has
\* increments exactly one of hits and misses by one, hits when an
\* unexpired entry is found and misses otherwise; with the flag false a
\* lookup counts nothing; nothing else counts; getStats reports
\* hits / (hits + misses) as a percentage, "0%" before any lookup.
C24_EnabledLookupCounts ==
  [][/\ (Lookup /\ cacheEnabled) => IF Found THEN CountsHit ELSE CountsMiss
     /\ (Lookup /\ cacheEnabled /\ ~Found) => Absent
     /\ (Lookup /\ ~cacheEnabled) => (CountsNothing /\ Absent)
     /\ OnlyLookupsCount
     /\ last'.op = "getStats" => RateReported]_vars

\* getStats after two hits and one miss reports 66.67%
C24_Witness ==
  /\ last.op = "getStats"
  /\ last.ret.hits = 2
  /\ last.ret.misses = 1
  /\ last.ret.hitRate = [decimals |-> 2, hundredths |-> 6667]

\* the provider's in-memory component cache over an hour and more
NextMemory ==
  \/ \E key \in MemKeys : MemGet(key)
  \/ \E key \in MemKeys, v \in Values, ttl \in MemTTLs : MemSet(key, v, ttl)
  \/ \E key \in MemKeys, ttl \in MemTTLs : MemWrapStart(Wrapper, key, ttl)
  \/ \E v \in Values : MemWrapFinish(Wrapper, v)
  \/ TickSecond
  \/ TickHour

SpecMemory == Init /\ [][NextMemory]_vars

\* C25: an entry written to the in-memory component cache without an
\* explicit TTL is no longer returned by a get made after the default TTL
\* of one hour has elapsed since it was written.
C25_DefaultTTLExpires ==
  (/\ last.op = "mem_get"
   /\ IsEntry(last.val)
   /\ last.val.ttl = 0
   /\ last.at - last.val.written > COMPONENT_CACHE_TTL * Second)
    => last.ret = Undefined

\* --------------------------------------------- fingerprint comparison claims
\* the combined fingerprint the suspended call computes from the two answers
Computed == CombinedSha(local[Caller].flutterSha, upstream.web)

\* the step in which a suspended call receives the second upstream answer
\* and the record it read carries no fingerprint, or the fetched one
FingerprintAgrees ==
  /\ pc[Caller] = "web"
  /\ last'.op = "check"
  /\ last'.part /= "failed"
  /\ \/ heap[local[Caller].sv].gitCommitSha = NoSha
     \/ heap[local[Caller].sv].gitCommitSha = Computed

\* C26: when the record has no fingerprint or the fingerprint just
\* computed, the comparison signals unchanged (the call returns false and
\* clears nothing) and the record stored afterwards carries the computed
\* fingerprint.
C26_AgreeingFingerprintKept ==
  [][FingerprintAgrees =>
       /\ last'.ret = FALSE
       /\ last'.part = "unchanged"
       /\ NothingCleared
       /\ IsEntry(StoredEntry')
       /\ StoredRecord'.gitCommitSha = Computed]_vars

\* a first comparison, made after both repositories moved, stored the
\* fingerprint of the new commits and left every partition populated
C26_Witness ==
  /\ last.op = "check"
  /\ last.part = "unchanged"
  /\ last.ret = FALSE
  /\ IsEntry(StoredEntry)
  /\ StoredRecord.gitCommitSha = CombinedSha("b", "b")
  /\ Populated(Cur) = Partitions

\* a call took an invalidating path (first run, version mismatch or
\* upstream change) and its set stored the record it stamped
InvalidatingStamp ==
  /\ last'.op = "check"
  /\ last'.ret = TRUE
  /\ cacheEnabled

\* the stored record carries no fingerprint
Unfingerprinted ==
  /\ IsEntry(StoredEntry)
  /\ StoredRecord.gitCommitSha = NoSha

\* C28: the record stamped by an invalidating path carries no fingerprint
\* (not even the one that triggered the invalidation); a stored record
\* without fingerprint gets one only from a comparison that signals
\* unchanged; and a comparison reports changed only against a record that
\* carries a fingerprint: so the first due comparison after an invalidation
\* never reports changed.
C28_InvalidationDropsFingerprint ==
  [][/\ InvalidatingStamp => (Unfingerprinted' /\ StoredRecord'.lastChecked = last'.at)
     /\ (Unfingerprinted /\ IsEntry(StoredEntry') /\ ~Unfingerprinted')
          => (last'.op = "check" /\ last'.part = "unchanged")
     /\ (last'.op = "check" /\ last'.part = "changed")
          => (/\ heap[local[Caller].sv].gitCommitSha /= NoSha
              /\ heap[local[Caller].sv].gitCommitSha /= Computed)]_vars

\* new upstream commits were found against a fingerprinted record, and the
\* record stamped by the invalidation carries no fingerprint
C28_Witness ==
  /\ last.op = "check"
  /\ last.part = "changed"
  /\ last.ret = TRUE
  /\ Unfingerprinted
  /\ StoredRecord.lastChecked = last.at
  /\ upstream /= [flutter |-> "a", web |-> "a"]

\* githubClient.get called again and again, each attempt ending any way
NextHttp ==
  \/ HttpGet
  \/ \E status \in Statuses, header \in Headers : HttpAttemptEnds(status, header)

SpecHttp == Init /\ [][NextHttp]_vars

\* an attempt ended with a 4xx client-error response
ClientError ==
  /\ request.pc = "attempt"
  /\ last'.op \in {"http_get", "http_attempt"}
  /\ last'.val.status >= 400
  /\ last'.val.status < 500

\* C27: githubClient.get makes at most retries + 1 = 4 attempts, and an
\* attempt that ends with a 4xx response is the last one: the call fails
\* there without retrying.
C27_ClientErrorStopsRetries ==
  [][/\ request'.attempt <= RETRIES + 1
     /\ ClientError => (/\ request'.pc = "idle"
                         /\ last'.op = "http_get"
                         /\ last'.ret = "rejected"
                         /\ last'.val.attempts = request.attempt)]_vars

\* ------------------------------------------- overlapping checkCacheVersion
\* main() at startup and the check_updates action call checkCacheVersion
\* while the other call may be suspended in its upstream queries
NextOverlap ==
  \/ TickMs
  \/ TickHour
  \/ ResetConfig
  \/ \E p \in Procs : CheckStart(p)
  \/ \E p \in Procs, ok \in BOOLEAN : FlutterResponse(p, ok)
  \/ \E p \in Procs, ok \in BOOLEAN : WebResponse(p, ok)
  \/ \E repo \in {"flutter", "web"} : UpstreamCommit(repo, "b")

SpecOverlap == Init /\ [][NextOverlap]_vars

\* a suspended call completes after the other call stamped a record of its
\* own: the stored record is no longer the object the call read
LateFinish ==
  /\ last'.op = "check"
  /\ pc[last'.val] \in {"flutter", "web"}
  /\ cacheEnabled
  /\ IsEntry(StoredEntry)
  /\ StoredEntry.data.ref /= local[last'.val].sv

\* two calls complete one right after the other and both report an
\* upstream change, while upstream moved once in all
TwiceChanged ==
  /\ last.op = "check"
  /\ last.part = "changed"
  /\ last'.op = "check"
  /\ last'.part = "changed"
  /\ last'.val /= last.val
  /\ upstream' = [flutter |-> "a", web |-> "b"]

\* C29: of two overlapping checkCacheVersion() calls, the one that resumes
\* later does not put its older snapshot over the record the other call
\* stamped (the stored lastChecked does not go back), and one upstream
\* change is not answered by two invalidations.
C29_LateCallKeepsNewerRecord ==
  [][/\ LateFinish
          => (/\ IsEntry(StoredEntry')
              /\ StoredRecord'.lastChecked >= StoredRecord.lastChecked
              /\ last'.part = "failed"
                   => StoredRecord'.gitCommitSha = StoredRecord.gitCommitSha)
     /\ ~TwiceChanged]_vars

====
